---- MODULE Spec2Model ----
(***************************************************************************)
(* Model of the crawl job of backend/modules/project_manager.py:           *)
(* add_project_with_scraping registers one job and hands it to the thread  *)
(* pool, run_extraction_thread crawls the site from a FIFO url_queue with   *)
(* a visited set, and interrupt_extraction sets the cooperative interrupt   *)
(* flag from the server's event loop while the worker thread runs.          *)
(*                                                                         *)
(* The web site is the environment: what a GET returns is chosen when the   *)
(* request is answered.  A URL is a record (host, path); urlparse(u).netloc *)
(* is u.host.  Times, sizes and page contents other than links are left     *)
(* out.                                                                    *)
(*                                                                         *)
(* Spec is the crawl job.  SpecChannel is the job's progress channel:       *)
(* send_log, consume_messages and the WebSocket manager.  SpecDynamic is    *)
(* the paginated scrape of backend/modules/dynamic_scraper.py.              *)
(***************************************************************************)
EXTENDS Integers, Sequences, FiniteSets, TLC

\* ---------------------------------------------------------------- bounds
\* number of distinct pages (paths) on the seed's host
NumPages == 2
\* largest max_depth a job is submitted with (the smallest is -1)
MaxDepth == 1
\* largest number of URLs one document lists (the <a href> elements of a
\* page, the page URLs of the sitemap)
MaxLinks == 2
\* largest page number of a paginated listing
MaxPageNumber == 2

\* ------------------------------------------------------------- constants
STATUS_RUNNING == "running"
STATUS_INTERRUPTED == "interrupted"
STATUS_COMPLETED == "completed"
STATUS_ERROR == "error"

SiteHost == "site.example"
OtherHost == "other.example"
\* a netloc urlparse rejects with ValueError (an unclosed IPv6 bracket)
MalformedHost == "["

\* the `url` argument of run_extraction_thread: the seed
url == [host |-> SiteHost, path |-> 0]

\* the URLs of the model: the pages of the seed's host, one page of another
\* host, and one string urlparse cannot parse
SiteUrls == [host : {SiteHost}, path : 0 .. (NumPages - 1)]
OtherUrl == [host |-> OtherHost, path |-> 0]
MalformedUrl == [host |-> MalformedHost, path |-> 0]
Urls == SiteUrls \cup {OtherUrl, MalformedUrl}

\* stands for "no page" in a progress event about the whole job
NoPage == [host |-> "", path |-> 0]

\* the one job of the model (main.py gives every job a fresh ObjectId)
client_id == "c1"

\* urlparse(u) raises ValueError
urlparse_raises(u) == u.host = MalformedHost

\* urlparse(u).netloc
netloc(u) == u.host

\* is_invalid_url (547-578) on the URLs of the model, which all start with
\* http:// and are short: True when urlparse raises (the bare except of line
\* 577) or finds no netloc (line 573)
is_invalid_url(u) == urlparse_raises(u) \/ netloc(u) = ""

\* base_domain = urlparse(url).netloc
base_domain == netloc(url)

Range(s) == {s[i] : i \in 1 .. Len(s)}

\* the sequences over S without repetition, of length at most n
RECURSIVE SeqsNoDup(_, _)
SeqsNoDup(S, n) ==
    IF n = 0 THEN {<<>>}
    ELSE LET shorter == SeqsNoDup(S, n - 1)
             longest == {p \in shorter \X S :
                            Len(p[1]) = n - 1 /\ p[2] \notin Range(p[1])}
         IN  shorter \cup {Append(p[1], p[2]) : p \in longest}

\* what the site can serve as a page: its hrefs, resolved, in the order
\* extract_links_from_html's list(links) yields them
Htmls == SeqsNoDup(Urls, MaxLinks)

\* page_urls kept as a list: a URL can be listed more than once
SitemapListsWithRepeats ==
    {s \in UNION {[1 .. n -> Urls] : n \in 1 .. MaxLinks} : url \in Range(s)}

\* what Sitemap(start_url=url).page_urls can be: a set that always holds the
\* start URL, listed in any order
SitemapLists == {s \in SeqsNoDup(Urls, MaxLinks) : url \in Range(s)}

\* the requests a client can submit (main.py ProjectURL): max_depth, the
\* keyword list (empty or not) and pages_limit (0 stands for None)
MaxDepthValues == -1 .. MaxDepth
KeywordLists == {<<>>, <<"kw">>}

\* what a page can say, as far as a keyword search goes: the set of the
\* keywords its text, image alt texts, cards and meta tags contain
PageTexts == SUBSET {"kw"}
PagesLimitValues == {0, 1}

VARIABLES
    pc,                 \* where the worker thread of the job is
    request,            \* the submitted ProjectURL
    pages_limit,        \* pages_limit as add_project_with_scraping passes it on
    active_extractions, \* module dict: client_id -> status, interrupt flag
    message_queues,     \* module dict: client_id -> queue of progress events
    project,            \* the job's document in projects_collection
    sites,              \* the sites collection: the stored page documents
    processing_status,  \* the worker's local processing_status dict
    url_queue,          \* the worker's FIFO of (url, depth)
    visited_urls,       \* the worker's visited set
    scraped_pages,      \* the worker's list of stored page URLs
    pages_checked,      \* the worker's page counter
    current,            \* the loop's locals: current_url, depth, should_store
    http_gets,          \* history: GETs the crawl loop issued, per URL
    enqueued,           \* history: url_queue.put calls, per URL
    hist,               \* history: the worker's flag reads, and what it did
                        \* while the flag was set
    \* the progress channel (consume_messages and the WebSocket manager)
    active_connections, \* ConnectionManager.active_connections: who is connected
    consumer_pc,        \* where the job's consume_messages task is
    message,            \* the consumer's local: the entry it took from the queue
    msg_buffer,         \* the consumer's backlog
    transport,          \* history: the entries websocket.send_json accepted
    clock,              \* history: the send_log calls made so far
    completion,         \* history: what became of the job's completion event
    \* the paginated scrape (run_dynamic_scraper of modules/dynamic_scraper.py)
    dyn_pc,             \* where the scrape's coroutine is
    config,             \* the scrape's configuration: url, paginationSelector
    dyn_current_url,    \* its local current_url (NoPage stands for None)
    processed_urls,     \* its local processed_urls
    dyn_pages_scraped,  \* its local pages_scraped
    dyn_status,         \* the status field of the scrape's document
    dyn_gets,           \* history: the GETs the scrape issued, per URL
    dyn_returned,       \* history: what the pagination functions returned
                        \* for the page fetched last
    \* the thread pool (thread_pool of project_manager.py) and several jobs
    work_queue,         \* the executor's queue of submitted work items
    pool_threads,       \* the jobs the executor's threads are running
    \* the permission check of add_project_with_scraping_route
    reply,              \* the text the model streams back
    check_failure,      \* where the check fails, if it does
    can_scrape_result,  \* what can_scrape returned ("" before the call)
    \* the pagination functions, called on their own
    res_pc,             \* "none", "call" (arguments chosen) or "done"
    res_soup,           \* the page handed to the functions
    res_url,            \* the current_url handed to the functions
    res_out,            \* what each of the functions returned
    \* run_dynamic_scraper of scraper/dynamic_scraper.py
    extracted_data,     \* the URLs of the pages whose items were stored
    \* the WebSocket endpoint and ConnectionManager, socket by socket
    endpoint_pc,        \* socket -> position of its websocket_endpoint call
    socket_of,          \* active_connections[client_id], or NoSocket
    \* process_extracted_links
    links_pc,           \* "none", "call", "run" or "done"
    site_links,         \* URL -> the extracted_links of its page, in order
    links_to_visit,     \* the links the function is called with
    links_depth,        \* its parameter depth
    call_stack,         \* the calls of scrape_links in progress
    links_visited       \* its visited_urls

\* the variables of the worker thread only
workervars == <<pc, request, pages_limit, project, sites, processing_status,
                url_queue, visited_urls, scraped_pages, pages_checked,
                current, http_gets, enqueued, hist>>

\* the variables of the progress channel only
chanvars == <<active_connections, consumer_pc, message, msg_buffer,
              transport, clock, completion>>

\* the variables of the paginated scrape
dynvars == <<dyn_pc, config, dyn_current_url, processed_urls,
             dyn_pages_scraped, dyn_status, dyn_gets, dyn_returned>>

\* the variables of the thread pool
poolvars == <<work_queue, pool_threads>>

\* the variables of the permission check
routevars == <<reply, check_failure, can_scrape_result>>

\* the variables of the pagination functions called on their own
resolvervars == <<res_pc, res_soup, res_url, res_out>>

\* the variables the crawl job, the progress channel, the paginated scrapes,
\* the thread pool and the permission check do not touch
\* the variables of the WebSocket endpoint, socket by socket
sockvars == <<endpoint_pc, socket_of>>

\* the variables of process_extracted_links
linkvars == <<links_pc, site_links, links_to_visit, links_depth, call_stack,
              links_visited>>

auxvars == <<resolvervars, extracted_data, sockvars, linkvars>>

vars == <<pc, request, pages_limit, active_extractions, message_queues,
          project, sites, processing_status, url_queue, visited_urls,
          scraped_pages, pages_checked, current, http_gets, enqueued,
          hist, chanvars, dynvars, poolvars, routevars, auxvars>>

\* ------------------------------------------------------------ the store

\* processing_status as add_project_with_scraping and run_extraction_thread
\* first build it
InitialStatus ==
    [robots_status |-> "not_processed", sitemap_status |-> "not_processed",
     pages_found |-> 0, pages_scraped |-> 0, errors |-> <<>>,
     extraction_status |-> STATUS_RUNNING]

\* no document inserted yet
NoProject ==
    [exists |-> FALSE, processing_status |-> InitialStatus,
     scraped_pages |-> <<>>, sitemap_pages |-> {}]

Error(kind, u) == [kind |-> kind, url |-> u]

Event(type, u) == [type |-> type, url |-> u]

\* send_log, for a run of consecutive calls: each entry is put on the job's
\* queue, unless the job has no queue
send_log(mq, events) ==
    IF client_id \notin DOMAIN mq THEN mq
    ELSE [mq EXCEPT ![client_id] = @ \o events]

\* history only: the job's interrupt flag is set
flag_set ==
    /\ client_id \in DOMAIN active_extractions
    /\ active_extractions[client_id].interrupt_requested

\* should_interrupt that never reports the flag
should_interrupt_never(ae) == FALSE

\* should_interrupt(client_id)
should_interrupt(ae) ==
    IF client_id \notin DOMAIN ae THEN FALSE
    ELSE ae[client_id].interrupt_requested

\* stands for "no entry taken" in the consumer's local `message`
NoMessage == [type |-> "", url |-> NoPage, timestamp |-> 0]

\* the progress channel before any job has a consumer
ChannelIdle ==
    /\ active_connections = {}
    /\ consumer_pc = "none"
    /\ message = NoMessage
    /\ msg_buffer = <<>>
    /\ transport = <<>>
    /\ clock = 0
    /\ completion = "none"

\* the URLs of a paginated listing: the pages of the seed's host by page
\* number (path k >= 1 stands for the URL of page k, /page/k/ or ?page=k
\* alike, path 0 for a URL with no page number), one page of another host,
\* one string urlparse rejects
PaginationUrls ==
    [host : {SiteHost}, path : 0 .. MaxPageNumber] \cup
    {OtherUrl, MalformedUrl}

\* no paginated scrape submitted
DynamicIdle ==
    /\ dyn_pc = "none"
    /\ config = [url |-> url, paginationSelector |-> FALSE]
    /\ dyn_current_url = NoPage
    /\ processed_urls = {}
    /\ dyn_pages_scraped = 0
    /\ dyn_status = "pending"
    /\ dyn_gets = [u \in PaginationUrls |-> 0]
    /\ dyn_returned = {}

\* the thread pool with nothing submitted
PoolIdle ==
    /\ work_queue = <<>>
    /\ pool_threads = {}

\* no permission check under way
RouteIdle ==
    /\ reply = <<>>
    /\ check_failure = "none"
    /\ can_scrape_result = ""

\* what the pagination functions return when none of them has a result
NoResult == [link |-> NoPage, heuristics |-> NoPage, page |-> NoPage]

\* the pagination functions not called on their own
ResolverIdle ==
    /\ res_pc = "none"
    /\ res_soup = <<>>
    /\ res_url = NoPage
    /\ res_out = NoResult

\* the sockets a client opens under the job's client_id, one after another
NumSockets == 4
Sockets == 1 .. NumSockets

\* stands for "client_id not in active_connections"
NoSocket == 0

\* no socket opened yet
SocketIdle ==
    /\ endpoint_pc = [s \in Sockets |-> "none"]
    /\ socket_of = NoSocket

\* process_extracted_links not called
LinksIdle ==
    /\ links_pc = "none"
    /\ site_links = <<>>
    /\ links_to_visit = <<>>
    /\ links_depth = 0
    /\ call_stack = <<>>
    /\ links_visited = {}

\* no call of the pagination functions, no item stored, no socket, no call
\* of process_extracted_links
AuxIdle ==
    /\ ResolverIdle
    /\ extracted_data = {}
    /\ SocketIdle
    /\ LinksIdle

NoCurrent ==
    [url |-> NoPage, depth |-> 0, contains_keywords |-> FALSE,
     should_store |-> FALSE, scrape_error |-> FALSE]

Init ==
    /\ pc = "idle"
    /\ request \in [max_depth : MaxDepthValues,
                    search_keywords : KeywordLists,
                    pages_limit : PagesLimitValues]
    /\ pages_limit = request.pages_limit
    /\ active_extractions = <<>>
    /\ message_queues = <<>>
    /\ project = NoProject
    /\ sites = {}
    /\ processing_status = InitialStatus
    /\ url_queue = <<>>
    /\ visited_urls = {}
    /\ scraped_pages = <<>>
    /\ pages_checked = 0
    /\ current = NoCurrent
    /\ http_gets = [u \in Urls |-> 0]
    /\ enqueued = [u \in Urls |-> 0]
    /\ hist = [observed |-> "none", last |-> "none", dequeues |-> 0,
               started |-> {}, pages |-> 0, finished |-> 0]
    /\ ChannelIdle
    /\ DynamicIdle
    /\ PoolIdle
    /\ RouteIdle
    /\ AuxIdle

\* the worker's arguments, as add_project_with_scraping passes them
max_depth == request.max_depth
search_keywords == request.search_keywords

\* -------------------------------------------------------------- actions

\* add_project_with_scraping: the page cap is overwritten, the project
\* document is inserted, the job is registered as running with its flag
\* clear, its queue is created and the worker is handed to the thread pool.
\* `id` is the job's client id: the client_id argument, or project_<id> when
\* the caller passed none (lines 337-339)
add_project_with_scraping_as(id) ==
    /\ pc = "idle"
    /\ pages_limit' = 0
    /\ project' = [exists |-> TRUE, processing_status |-> InitialStatus,
                   scraped_pages |-> <<>>, sitemap_pages |-> {url}]
    /\ active_extractions' =
           (id :> [status |-> STATUS_RUNNING,
                   interrupt_requested |-> FALSE])
    /\ message_queues' = (id :> <<>>)
    /\ pc' = "submitted"
    /\ UNCHANGED <<chanvars, dynvars, poolvars, routevars, auxvars>>
    /\ UNCHANGED <<request, sites, processing_status, url_queue, visited_urls,
                   scraped_pages, pages_checked, current, http_gets, enqueued,
                   hist>>

\* add_project_with_scraping called with the client_id of the request, as
\* the route does once the permission check has let the request through
add_project_with_scraping == add_project_with_scraping_as(client_id)

\* interrupt_extraction(client_id), called by the server's event loop at any
\* moment once the job is registered
interrupt_extraction ==
    /\ client_id \in DOMAIN active_extractions
    /\ active_extractions' =
           [active_extractions EXCEPT ![client_id].interrupt_requested = TRUE]
    /\ UNCHANGED <<chanvars, dynvars, poolvars, routevars, auxvars>>
    /\ UNCHANGED <<pc, request, pages_limit, message_queues, project, sites,
                   processing_status, url_queue, visited_urls, scraped_pages,
                   pages_checked, current, http_gets, enqueued, hist>>

\* run_extraction_thread, lines 597-672: the locals, the seed on the queue,
\* the first processing_status, persisted whole, and three info events
StartThread ==
    /\ pc = "submitted"
    /\ visited_urls' = {}
    /\ url_queue' = <<<<url, 0>>>>
    /\ enqueued' = [enqueued EXCEPT ![url] = @ + 1]
    /\ pages_checked' = 0
    /\ scraped_pages' = <<>>
    /\ processing_status' = InitialStatus
    /\ project' = [project EXCEPT !.processing_status = InitialStatus]
    /\ message_queues' =
           send_log(message_queues,
                    <<Event("info", NoPage), Event("info", NoPage),
                      Event("info", NoPage)>>)
    /\ pc' = "robots"
    /\ UNCHANGED <<chanvars, dynvars, poolvars, routevars, auxvars>>
    /\ UNCHANGED <<request, pages_limit, active_extractions, sites, current,
                   http_gets, hist>>

\* Step 1, lines 674-691: Robots(site=url) either saved a robots.txt (_id
\* set) or did not; the constructor swallows its own exceptions
ProcessRobots ==
    /\ pc = "robots"
    /\ \E saved \in BOOLEAN :
          IF saved
          THEN /\ processing_status' =
                      [processing_status EXCEPT !.robots_status = "success"]
               /\ message_queues' =
                      send_log(message_queues,
                               <<Event("info", NoPage),
                                 Event("success", NoPage)>>)
          ELSE /\ processing_status' =
                      [processing_status EXCEPT
                          !.robots_status = "failed",
                          !.errors = Append(@, Error("robots", NoPage))]
               /\ message_queues' =
                      send_log(message_queues,
                               <<Event("info", NoPage),
                                 Event("warning", NoPage)>>)
    /\ pc' = "sitemap"
    /\ UNCHANGED <<chanvars, dynvars, poolvars, routevars, auxvars>>
    /\ UNCHANGED <<request, pages_limit, active_extractions, project, sites,
                   url_queue, visited_urls, scraped_pages, pages_checked,
                   current, http_gets, enqueued, hist>>

\* url_queue.put((u, d)) for every u of the list `links` that is not in
\* visited_urls, in the list's order
put_unvisited(q, links, d) ==
    q \o [i \in 1 .. Len(SelectSeq(links, LAMBDA u : u \notin visited_urls))
             |-> <<SelectSeq(links, LAMBDA u : u \notin visited_urls)[i], d>>]

\* the put calls put_unvisited makes, added to the per-URL count
count_puts(links) ==
    [u \in Urls |->
        enqueued[u] + Cardinality({i \in 1 .. Len(links) :
                                     links[i] = u /\ u \notin visited_urls})]

\* Steps 2 and 3, lines 693-727: Sitemap(start_url=url) never raises and its
\* page_urls always holds url, so the success branch is taken; every listed
\* URL not yet visited is put on the queue at depth 0
ProcessSitemap ==
    /\ pc = "sitemap"
    /\ \E sitemap_pages \in SitemapLists :
          /\ processing_status' =
                 [processing_status EXCEPT
                     !.sitemap_status = "success",
                     !.pages_found = Len(sitemap_pages)]
          /\ url_queue' = put_unvisited(url_queue, sitemap_pages, 0)
          /\ enqueued' = count_puts(sitemap_pages)
    /\ message_queues' =
           send_log(message_queues,
                    <<Event("info", NoPage), Event("success", NoPage),
                      Event("info", NoPage), Event("info", NoPage),
                      Event("info", NoPage)>>)
    /\ pc' = "loop"
    /\ UNCHANGED <<chanvars, dynvars, poolvars, routevars, auxvars>>
    /\ UNCHANGED <<request, pages_limit, active_extractions, project, sites,
                   visited_urls, scraped_pages, pages_checked, current,
                   http_gets, hist>>

\* the branch of lines 737-756 without its break: the worker goes on to
\* line 758
interrupt_fall_through == "dequeue"

\* line 756: the break that ends the branch of the flag check leaves the loop
interrupt_break == "final"

\* lines 730-756: the loop test and the flag check before a dequeue.  With
\* the flag set the worker records `interrupted` in its processing_status,
\* persists that status and the error list, and breaks out of the loop
LoopTop ==
    /\ pc = "loop"
    /\ IF url_queue = <<>>
       THEN /\ pc' = "final"
            /\ UNCHANGED <<processing_status, project, message_queues, hist>>
       ELSE IF should_interrupt(active_extractions)
       THEN /\ processing_status' =
                   [processing_status EXCEPT
                       !.extraction_status = STATUS_INTERRUPTED,
                       !.errors = Append(@, Error("interrupted", NoPage))]
            /\ project' =
                   [project EXCEPT
                       !.processing_status.extraction_status =
                           STATUS_INTERRUPTED,
                       !.processing_status.errors =
                           processing_status'.errors]
            /\ message_queues' =
                   send_log(message_queues,
                            <<Event("warning", NoPage),
                              Event("info", NoPage)>>)
            /\ hist' = [hist EXCEPT !.last = "poll",
                                    !.observed = "before_dequeue"]
            /\ pc' = interrupt_break
       ELSE /\ pc' = "dequeue"
            /\ hist' = [hist EXCEPT !.last = "poll"]
            /\ UNCHANGED <<processing_status, project, message_queues>>
    /\ UNCHANGED <<chanvars, dynvars, poolvars, routevars, auxvars>>
    /\ UNCHANGED <<request, pages_limit, active_extractions, sites, url_queue,
                   visited_urls, scraped_pages, pages_checked, current,
                   http_gets, enqueued>>

\* the guard of line 779 left out: the filter is consulted for every page
keywords_specified_always(keywords) == TRUE

\* line 779: search_keywords and len(search_keywords) > 0
keywords_specified(keywords) == Len(keywords) > 0

\* the visited check left out: every dequeued URL goes on
already_visited_never(current_url, visited) == FALSE

\* `if current_url in visited_urls: continue`, lines 760-762
already_visited(current_url, visited) == current_url \in visited

\* lines 758-774: url_queue.get(), the visited test, the domain test (whose
\* urlparse is outside the per-page try), the visited mark
Dequeue ==
    /\ pc = "dequeue"
    /\ LET current_url == Head(url_queue)[1]
           depth == Head(url_queue)[2]
       IN  /\ url_queue' = Tail(url_queue)
           /\ hist' =
                  [hist EXCEPT
                      !.last = "get",
                      !.dequeues =
                          IF flag_set THEN @ + 1 ELSE @,
                      !.started =
                          IF /\ flag_set
                             /\ current_url \notin visited_urls
                             /\ ~urlparse_raises(current_url)
                             /\ netloc(current_url) = base_domain
                          THEN @ \cup {current_url} ELSE @]
           /\ IF already_visited(current_url, visited_urls)
              THEN /\ pc' = "loop"
                   /\ UNCHANGED <<visited_urls, pages_checked, current,
                                  message_queues>>
              ELSE IF urlparse_raises(current_url)
              THEN /\ pc' = "except"
                   /\ UNCHANGED <<visited_urls, pages_checked, current,
                                  message_queues>>
              ELSE IF netloc(current_url) # base_domain
              THEN /\ pc' = "loop"
                   /\ UNCHANGED <<visited_urls, pages_checked, current,
                                  message_queues>>
              ELSE /\ visited_urls' = visited_urls \cup {current_url}
                   /\ pages_checked' = pages_checked + 1
                   /\ current' = [url |-> current_url, depth |-> depth,
                                  contains_keywords |-> FALSE,
                                  should_store |-> TRUE,
                                  scrape_error |-> FALSE]
                   /\ message_queues' =
                          send_log(message_queues,
                                   <<Event("info", current_url)>>)
                   /\ pc' = IF keywords_specified(search_keywords)
                            THEN "keywords" ELSE "scrape"
    /\ UNCHANGED <<chanvars, dynvars, poolvars, routevars, auxvars>>
    /\ UNCHANGED <<request, pages_limit, active_extractions, project, sites,
                   processing_status, scraped_pages, http_gets, enqueued>>

\* check_page_for_keywords (136-270): contains_keywords starts False and
\* becomes True when some keyword of the list is found in the page;
\* found_keywords lists the keywords found, in the list's order, and there is
\* one context per keyword found.  A failed GET answers False with nothing
\* found
check_page_for_keywords(fetched, text_content, keywords) ==
    LET found_keywords ==
            IF fetched
            THEN SelectSeq(keywords, LAMBDA k : k \in text_content)
            ELSE <<>>
    IN  [contains_keywords |-> Len(found_keywords) > 0,
         found_keywords |-> found_keywords,
         keyword_contexts |-> Range(found_keywords)]

\* the filter's answer ignored: every page is stored
store_decision_always(contains_keywords) == TRUE

\* lines 778-800: should_store, once the filter has answered
store_decision(contains_keywords) == contains_keywords

\* lines 777-801: one GET of the page by check_page_for_keywords, then the
\* decision to store and the events: the matches and one context per
\* keyword found, or the "no keywords" detail
CheckKeywords ==
    /\ pc = "keywords"
    /\ http_gets' = [http_gets EXCEPT ![current.url] = @ + 1]
    /\ \E fetched \in BOOLEAN, text_content \in PageTexts :
          LET result == check_page_for_keywords(fetched, text_content,
                                                search_keywords)
              contexts == [i \in 1 .. Cardinality(result.keyword_contexts)
                              |-> Event("detail", current.url)]
          IN  /\ current' =
                     [current EXCEPT
                         !.contains_keywords = result.contains_keywords,
                         !.should_store =
                             store_decision(result.contains_keywords)]
              /\ message_queues' =
                     send_log(message_queues,
                              IF result.contains_keywords
                              THEN <<Event("detail", current.url),
                                     Event("success", current.url)>>
                                   \o contexts
                              ELSE <<Event("detail", current.url),
                                     Event("detail", current.url)>>)
    /\ pc' = "scrape"
    /\ UNCHANGED <<chanvars, dynvars, poolvars, routevars, auxvars>>
    /\ UNCHANGED <<request, pages_limit, active_extractions, project, sites,
                   processing_status, url_queue, visited_urls, scraped_pages,
                   pages_checked, enqueued, hist>>

\* scrape_website (scraper/site.py 18-164) never raises: a failed GET gives a
\* document with "error" and no raw_html, a good one gives raw_html
ScrapeResults ==
    {[error |-> TRUE, raw_html |-> <<>>]} \cup
    {[error |-> FALSE, raw_html |-> h] : h \in Htmls}

\* extract_links_from_html: the hrefs whose netloc is the base URL's; an
\* href urlparse rejects raises inside the function's try, which returns []
extract_links_from_html(html_content, base_url) ==
    IF \E i \in 1 .. Len(html_content) : urlparse_raises(html_content[i])
    THEN <<>>
    ELSE SelectSeq(html_content, LAMBDA h : netloc(h) = netloc(base_url))

\* the depth test with <= for <
within_depth_inclusive(depth) == depth <= max_depth

\* whether run_extraction_thread extracts the links of a page at `depth`
within_depth(depth) == depth < max_depth

\* store_in_mongodb: upsert of the page document by its url
store_in_mongodb(coll, scraped_url, scraped_data) ==
    {d \in coll : d.url # scraped_url} \cup
    {[url |-> scraped_url, error |-> scraped_data.error]}

\* lines 803-805: the info event and the GET that scrape_website issues
ScrapeRequest ==
    /\ pc = "scrape"
    /\ message_queues' =
           send_log(message_queues, <<Event("info", current.url)>>)
    /\ http_gets' = [http_gets EXCEPT ![current.url] = @ + 1]
    /\ pc' = "fetching"
    /\ UNCHANGED <<chanvars, dynvars, poolvars, routevars, auxvars>>
    /\ UNCHANGED <<request, pages_limit, active_extractions, project, sites,
                   processing_status, url_queue, visited_urls, scraped_pages,
                   pages_checked, current, enqueued, hist>>

\* lines 805-867: the GET is answered; links are queued at depth + 1 when
\* depth < max_depth and there is HTML; the page is stored when should_store;
\* the counters are set from the visited set and the stored list, locally
\* and in the project document
ScrapeResponse ==
    /\ pc = "fetching"
    /\ \E scraped_data \in ScrapeResults :
          LET page_content == ~scraped_data.error
              new_links ==
                  IF within_depth(current.depth) /\ page_content
                  THEN extract_links_from_html(scraped_data.raw_html,
                                               current.url)
                  ELSE <<>>
              link_events ==
                  IF within_depth(current.depth) /\ ~page_content
                  THEN <<Event("warning", current.url)>>
                  ELSE <<Event("detail", current.url)>>
              store_events ==
                  IF current.should_store
                  THEN <<Event("success", current.url),
                         Event("detail", current.url)>>
                  ELSE <<>>
          IN  /\ url_queue' =
                     put_unvisited(url_queue, new_links, current.depth + 1)
              /\ enqueued' = count_puts(new_links)
              /\ scraped_pages' =
                     IF current.should_store
                     THEN Append(scraped_pages, current.url)
                     ELSE scraped_pages
              /\ sites' =
                     IF current.should_store
                     THEN store_in_mongodb(sites, current.url, scraped_data)
                     ELSE sites
              /\ message_queues' =
                     send_log(message_queues, link_events \o store_events)
              /\ current' =
                     [current EXCEPT !.scrape_error = scraped_data.error]
    /\ processing_status' =
           [processing_status EXCEPT
               !.pages_found = Cardinality(visited_urls),
               !.pages_scraped = Len(scraped_pages')]
    /\ project' =
           [project EXCEPT
               !.processing_status.pages_found = Cardinality(visited_urls),
               !.processing_status.pages_scraped = Len(scraped_pages')]
    /\ hist' =
           [hist EXCEPT
               !.last = "page",
               !.finished = @ + 1,
               !.pages = IF flag_set THEN @ + 1 ELSE @]
    /\ pc' = "check_bottom"
    /\ UNCHANGED <<chanvars, dynvars, poolvars, routevars, auxvars>>
    /\ UNCHANGED <<request, pages_limit, active_extractions, visited_urls,
                   pages_checked, http_gets>>

\* handle_interruption (965-1031): the job's status and the local
\* processing_status become `interrupted`.  The final update sets
\* processing_status and paths below it in one $set, which the store may
\* reject; update_project_partial_sync swallows the error.  Applied, it
\* writes the local processing_status and the lists processing_status does
\* not hold (its .get defaults, []).  Then three events and the completion
\* message
handle_interruption ==
    IF client_id \notin DOMAIN active_extractions
    THEN UNCHANGED <<active_extractions, processing_status, project,
                     message_queues>>
    ELSE /\ active_extractions' =
                [active_extractions EXCEPT
                    ![client_id].status = STATUS_INTERRUPTED]
         /\ processing_status' =
                [processing_status EXCEPT
                    !.extraction_status = STATUS_INTERRUPTED]
         /\ \E applied \in BOOLEAN :
               project' =
                   IF applied
                   THEN [project EXCEPT
                            !.processing_status = processing_status',
                            !.scraped_pages = <<>>,
                            !.sitemap_pages = {}]
                   ELSE project
         /\ message_queues' =
                send_log(message_queues,
                         <<Event("warning", NoPage), Event("warning", NoPage),
                           Event("info", NoPage), Event("info", NoPage),
                           Event("completion", NoPage)>>)

\* lines 879-883: the flag check after a page; with the flag set the worker
\* runs handle_interruption and returns
CheckBottom ==
    /\ pc = "check_bottom"
    /\ IF should_interrupt(active_extractions)
       THEN /\ handle_interruption
            /\ hist' = [hist EXCEPT !.last = "poll",
                                    !.observed = "after_page"]
            /\ pc' = "finally"
       ELSE /\ pc' = "loop"
            /\ hist' = [hist EXCEPT !.last = "poll"]
            /\ UNCHANGED <<active_extractions, processing_status, project,
                           message_queues>>
    /\ UNCHANGED <<chanvars, dynvars, poolvars, routevars, auxvars>>
    /\ UNCHANGED <<request, pages_limit, sites, url_queue, visited_urls,
                   scraped_pages, pages_checked, current, http_gets,
                   enqueued>>

\* lines 885-899, reached when the loop ends or breaks: the counters, the
\* status `completed`, and the whole processing_status and the two lists
\* written to the project document
FinalUpdate ==
    /\ pc = "final"
    /\ processing_status' =
           [processing_status EXCEPT
               !.pages_scraped = Len(scraped_pages),
               !.pages_found = Cardinality(visited_urls),
               !.extraction_status = STATUS_COMPLETED]
    /\ project' =
           [project EXCEPT
               !.processing_status = processing_status',
               !.scraped_pages = scraped_pages,
               !.sitemap_pages = visited_urls]
    /\ pc' = "set_completed"
    /\ UNCHANGED <<chanvars, dynvars, poolvars, routevars, auxvars>>
    /\ UNCHANGED <<request, pages_limit, active_extractions, message_queues,
                   sites, url_queue, visited_urls, scraped_pages,
                   pages_checked, current, http_gets, enqueued, hist>>

\* lines 901-904
SetCompleted ==
    /\ pc = "set_completed"
    /\ active_extractions' =
           IF client_id \in DOMAIN active_extractions
           THEN [active_extractions EXCEPT
                    ![client_id].status = STATUS_COMPLETED]
           ELSE active_extractions
    /\ pc' = "notify"
    /\ UNCHANGED <<chanvars, dynvars, poolvars, routevars, auxvars>>
    /\ UNCHANGED <<request, pages_limit, message_queues, project, sites,
                   processing_status, url_queue, visited_urls, scraped_pages,
                   pages_checked, current, http_gets, enqueued, hist>>

\* lines 906-921: two success events and the completion message
NotifyCompletion ==
    /\ pc = "notify"
    /\ message_queues' =
           send_log(message_queues,
                    <<Event("success", NoPage), Event("success", NoPage),
                      Event("completion", NoPage)>>)
    /\ pc' = "finally"
    /\ UNCHANGED <<chanvars, dynvars, poolvars, routevars, auxvars>>
    /\ UNCHANGED <<request, pages_limit, active_extractions, project, sites,
                   processing_status, url_queue, visited_urls, scraped_pages,
                   pages_checked, current, http_gets, enqueued, hist>>

\* lines 923-945: an exception that escaped the loop (the urlparse of the
\* domain test): an error event, status `error` for the job, locally and in
\* the project document, with the message on the error list
ThreadException ==
    /\ pc = "except"
    /\ message_queues' =
           send_log(message_queues, <<Event("error", NoPage)>>)
    /\ active_extractions' =
           IF client_id \in DOMAIN active_extractions
           THEN [active_extractions EXCEPT ![client_id].status = STATUS_ERROR]
           ELSE active_extractions
    /\ processing_status' =
           [processing_status EXCEPT
               !.extraction_status = STATUS_ERROR,
               !.errors = Append(@, Error("unexpected", NoPage))]
    /\ project' = [project EXCEPT !.processing_status = processing_status']
    /\ pc' = "finally"
    /\ UNCHANGED <<chanvars, dynvars, poolvars, routevars, auxvars>>
    /\ UNCHANGED <<request, pages_limit, sites, url_queue, visited_urls,
                   scraped_pages, pages_checked, current, http_gets, enqueued,
                   hist>>

\* lines 946-957: the finally block's last event
ThreadFinally ==
    /\ pc = "finally"
    /\ message_queues' =
           send_log(message_queues, <<Event("info", NoPage)>>)
    /\ pc' = "done"
    /\ UNCHANGED <<chanvars, dynvars, poolvars, routevars, auxvars>>
    /\ UNCHANGED <<request, pages_limit, active_extractions, project, sites,
                   processing_status, url_queue, visited_urls, scraped_pages,
                   pages_checked, current, http_gets, enqueued, hist>>

Next ==
    \/ add_project_with_scraping
    \/ interrupt_extraction
    \/ StartThread
    \/ ProcessRobots
    \/ ProcessSitemap
    \/ LoopTop
    \/ Dequeue
    \/ CheckKeywords
    \/ ScrapeRequest
    \/ ScrapeResponse
    \/ CheckBottom
    \/ FinalUpdate
    \/ SetCompleted
    \/ NotifyCompletion
    \/ ThreadException
    \/ ThreadFinally

Spec == Init /\ [][Next]_vars

\* ---------------------------------------------- the progress channel
\* consume_messages and the WebSocket manager, with the worker thread seen
\* from the channel: its send_log calls and the moment it sets the job's
\* final status.

\* the send_log calls one job makes
MaxEvents == 3

\* log_entry of send_log: type, message, timestamp; the timestamp is the
\* number of the send_log call
log_entry(log_type, t) == [type |-> log_type, url |-> NoPage, timestamp |-> t]

\* the state add_project_with_scraping leaves (lines 342-378): the job is
\* registered as running, its queue exists, its consumer task is created and
\* the worker is handed to the thread pool; the observer's WebSocket may be
\* connected already
InitChannel ==
    /\ pc = "submitted"
    /\ request = [max_depth |-> 0, search_keywords |-> <<>>,
                  pages_limit |-> 0]
    /\ pages_limit = 0
    /\ active_extractions =
           (client_id :> [status |-> STATUS_RUNNING,
                          interrupt_requested |-> FALSE])
    /\ message_queues = (client_id :> <<>>)
    /\ project = [exists |-> TRUE, processing_status |-> InitialStatus,
                  scraped_pages |-> <<>>, sitemap_pages |-> {url}]
    /\ sites = {}
    /\ processing_status = InitialStatus
    /\ url_queue = <<>>
    /\ visited_urls = {}
    /\ scraped_pages = <<>>
    /\ pages_checked = 0
    /\ current = NoCurrent
    /\ http_gets = [u \in Urls |-> 0]
    /\ enqueued = [u \in Urls |-> 0]
    /\ hist = [observed |-> "none", last |-> "none", dequeues |-> 0,
               started |-> {}, pages |-> 0, finished |-> 0]
    /\ active_connections \in SUBSET {client_id}
    /\ consumer_pc = "loop"
    /\ message = NoMessage
    /\ msg_buffer = <<>>
    /\ transport = <<>>
    /\ clock = 0
    /\ completion = "none"
    /\ DynamicIdle
    /\ PoolIdle
    /\ RouteIdle
    /\ AuxIdle

\* the maxsize of the job's queue: queue.Queue() of line 364 has none
queue_maxsize == 0

\* Queue.put on a queue that holds at most one entry
put_blocks_when_held(q) == Len(q) >= 1

\* Queue.put(item) of line 132, with block=True and no timeout: the caller
\* waits while the queue has a maxsize and is full
put_blocks(q) == queue_maxsize > 0 /\ Len(q) >= queue_maxsize

\* the worker thread calls send_log (119-134): the entry goes on the job's
\* queue, unless the job has no queue any more
WorkerSendLog ==
    /\ clock < MaxEvents
    /\ client_id \in DOMAIN message_queues
           => ~put_blocks(message_queues[client_id])
    /\ clock' = clock + 1
    /\ message_queues' =
           send_log(message_queues, <<log_entry("info", clock + 1)>>)
    /\ UNCHANGED <<active_extractions, active_connections, consumer_pc,
                   message, msg_buffer, transport, completion>>
    /\ UNCHANGED <<workervars, dynvars, poolvars, routevars, auxvars>>

\* the worker thread sets the job's final status (lines 903, 931, 977); it
\* still calls send_log afterwards
WorkerSetStatus ==
    /\ active_extractions[client_id].status = STATUS_RUNNING
    /\ \E status \in {STATUS_COMPLETED, STATUS_INTERRUPTED, STATUS_ERROR} :
          active_extractions' =
              [active_extractions EXCEPT ![client_id].status = status]
    /\ UNCHANGED <<message_queues, chanvars>>
    /\ UNCHANGED <<workervars, dynvars, poolvars, routevars, auxvars>>

\* lines 909-921 and 1015-1029: after the status completed or interrupted the
\* worker puts the job's completion event on the job's queue, if the job
\* still has one
WorkerPublishCompletion ==
    /\ active_extractions[client_id].status \in
           {STATUS_COMPLETED, STATUS_INTERRUPTED}
    /\ completion = "none"
    /\ clock' = clock + 1
    /\ message_queues' =
           send_log(message_queues, <<log_entry("completion", clock + 1)>>)
    /\ completion' = IF client_id \in DOMAIN message_queues
                     THEN "queued" ELSE "dropped"
    /\ UNCHANGED <<active_extractions, active_connections, consumer_pc,
                   message, msg_buffer, transport>>
    /\ UNCHANGED <<workervars, dynvars, poolvars, routevars, auxvars>>

\* websocket_endpoint, main.py 329-331: ConnectionManager.connect
websocket_connect ==
    /\ client_id \notin active_connections
    /\ active_connections' = active_connections \cup {client_id}
    /\ UNCHANGED <<active_extractions, message_queues, consumer_pc, message,
                   msg_buffer, transport, clock, completion>>
    /\ UNCHANGED <<workervars, dynvars, poolvars, routevars, auxvars>>

\* websocket_endpoint, main.py 349-351: ConnectionManager.disconnect
websocket_disconnect ==
    /\ client_id \in active_connections
    /\ active_connections' = active_connections \ {client_id}
    /\ UNCHANGED <<active_extractions, message_queues, consumer_pc, message,
                   msg_buffer, transport, clock, completion>>
    /\ UNCHANGED <<workervars, dynvars, poolvars, routevars, auxvars>>

\* send_personal_json without its membership test and its try: a send that
\* does not go through raises
send_personal_json_raising(connections, accepted) ==
    [sent |-> client_id \in connections /\ accepted,
     raised |-> ~(client_id \in connections /\ accepted)]

\* ConnectionManager.send_personal_json (websocket_manager.py 33-43): with no
\* connection for the client it does nothing; an exception of send_json is
\* caught and printed.  It never raises
send_personal_json(connections, accepted) ==
    [sent |-> client_id \in connections /\ accepted, raised |-> FALSE]

\* consume_messages, lines 64-68 and 81: q.get(block=False)
ConsumerGet ==
    /\ consumer_pc = "loop"
    /\ IF message_queues[client_id] = <<>>
       THEN /\ consumer_pc' = "empty"
            /\ UNCHANGED <<message, message_queues>>
       ELSE /\ message' = Head(message_queues[client_id])
            /\ message_queues' =
                   [message_queues EXCEPT ![client_id] = Tail(@)]
            /\ consumer_pc' = "send"
    /\ UNCHANGED <<active_extractions, active_connections, msg_buffer,
                   transport, clock, completion>>
    /\ UNCHANGED <<workervars, dynvars, poolvars, routevars, auxvars>>

\* lines 70-79: the entry is handed to send_personal_json; only when that
\* raises does the entry go to msg_buffer
ConsumerSend ==
    /\ consumer_pc = "send"
    /\ \E accepted \in BOOLEAN :
          LET result == send_personal_json(active_connections, accepted)
          IN  /\ transport' = IF result.sent
                              THEN Append(transport, message)
                              ELSE transport
              /\ msg_buffer' = IF result.raised
                               THEN Append(msg_buffer, message)
                               ELSE msg_buffer
    /\ message' = NoMessage
    /\ consumer_pc' = "loop"
    /\ UNCHANGED <<active_extractions, message_queues, active_connections,
                   clock, completion>>
    /\ UNCHANGED <<workervars, dynvars, poolvars, routevars, auxvars>>

\* lines 81-95: the queue was empty; with a connection the oldest entry of
\* msg_buffer is sent and, unless the send raises, removed; then the sleep
ConsumerEmpty ==
    /\ consumer_pc = "empty"
    /\ IF msg_buffer # <<>> /\ client_id \in active_connections
       THEN \E accepted \in BOOLEAN :
               LET result == send_personal_json(active_connections, accepted)
               IN  /\ transport' = IF result.sent
                                   THEN Append(transport, msg_buffer[1])
                                   ELSE transport
                   /\ msg_buffer' = IF result.raised
                                    THEN msg_buffer
                                    ELSE Tail(msg_buffer)
       ELSE UNCHANGED <<transport, msg_buffer>>
    /\ consumer_pc' = "sleep"
    /\ UNCHANGED <<active_extractions, message_queues, active_connections,
                   message, clock, completion>>
    /\ UNCHANGED <<workervars, dynvars, poolvars, routevars, auxvars>>

\* the test of lines 98-99 answering yes for every job
extraction_done_always(ae) == TRUE

\* lines 98-99: the job is not registered, or its status is a final one
extraction_done(ae) ==
    \/ client_id \notin DOMAIN ae
    \/ ae[client_id].status \in
           {STATUS_COMPLETED, STATUS_ERROR, STATUS_INTERRUPTED}

\* lines 97-108: once the job has a final status and both the queue and
\* msg_buffer are empty, the consumer deletes the job's queue and ends
ConsumerCheckDone ==
    /\ consumer_pc = "sleep"
    /\ IF /\ extraction_done(active_extractions)
          /\ message_queues[client_id] = <<>>
          /\ msg_buffer = <<>>
       THEN /\ message_queues' =
                   [c \in DOMAIN message_queues \ {client_id}
                       |-> message_queues[c]]
            /\ consumer_pc' = "ended"
       ELSE /\ consumer_pc' = "loop"
            /\ UNCHANGED message_queues
    /\ UNCHANGED <<active_extractions, active_connections, message,
                   msg_buffer, transport, clock, completion>>
    /\ UNCHANGED <<workervars, dynvars, poolvars, routevars, auxvars>>

NextChannel ==
    \/ WorkerSendLog
    \/ WorkerSetStatus
    \/ WorkerPublishCompletion
    \/ websocket_connect
    \/ websocket_disconnect
    \/ ConsumerGet
    \/ ConsumerSend
    \/ ConsumerEmpty
    \/ ConsumerCheckDone

SpecChannel == InitChannel /\ [][NextChannel]_vars

\* the worker runs in a thread of its own (thread_pool, line 378), which the
\* interpreter schedules whatever the event loop does: its steps are taken
\* when they stay possible.  Nothing is assumed of the consumer task or of
\* the observer
SpecChannelFair ==
    SpecChannel /\ WF_vars(WorkerSendLog) /\ WF_vars(WorkerSetStatus)

\* consume_messages is a task of the server's event loop (created at line
\* 367); each of its awaits (send_json, asyncio.sleep) gives the loop back
\* and the loop resumes the task, so each of its steps is taken when it
\* stays possible.  Nothing is assumed of the worker or of the observer
SpecChannelLive ==
    /\ SpecChannel
    /\ WF_vars(ConsumerGet)
    /\ WF_vars(ConsumerSend)
    /\ WF_vars(ConsumerEmpty)
    /\ WF_vars(ConsumerCheckDone)

\* ------------------------------------------------- the paginated scrape
\* run_dynamic_scraper of modules/dynamic_scraper.py and its pagination
\* functions.  A fetched page is the list of its anchors in document order;
\* every anchor is matched by the pagination selector and lies in a
\* pagination container.  An anchor is a "next" link (its text holds a next
\* indicator) or a numbered link, whose text is the page number of its href
\* when the href has one.  Failures of the database are left out.

\* max_pages, the safety limit of line 36
max_pages == 50

Elements == [href : PaginationUrls, next : BOOLEAN]

\* what the site can serve as a listing page
Soups == SeqsNoDup(Elements, MaxLinks)

\* extract_page_number_from_url (485-505); 0 stands for None, and both are
\* false where the callers test the number
extract_page_number_from_url(u) == u.path

\* find_current_page_number (447-483): no anchor carries an active class or
\* aria-current, so the number is the first anchor text that is an integer
find_current_page_number(pagination_elements) ==
    LET numbered ==
            SelectSeq(pagination_elements,
                      LAMBDA e : ~e.next /\
                                 extract_page_number_from_url(e.href) # 0)
    IN  IF numbered = <<>> THEN 0
        ELSE extract_page_number_from_url(numbered[1].href)

\* find_next_page_link (263-330): the first "next" anchor; else the anchor
\* whose text is the current page number + 1; else the first anchor whose
\* URL page number is above the current URL's; else, from the end, the first
\* anchor to another path of the same host.  make_absolute_url (urljoin) of
\* an href urlparse rejects raises, and the function then returns None
find_next_page_link(pagination_elements, cur) ==
    LET n == Len(pagination_elements)
        nexts == SelectSeq(pagination_elements, LAMBDA e : e.next)
        current_page == find_current_page_number(pagination_elements)
        by_text ==
            SelectSeq(pagination_elements,
                      LAMBDA e : ~e.next /\
                                 extract_page_number_from_url(e.href) =
                                     current_page + 1)
        by_url ==
            SelectSeq(pagination_elements,
                      LAMBDA e :
                          /\ extract_page_number_from_url(e.href) # 0
                          /\ extract_page_number_from_url(cur) # 0
                          /\ extract_page_number_from_url(e.href) >
                                 extract_page_number_from_url(cur))
        reversed == [i \in 1 .. n |-> pagination_elements[n + 1 - i]]
        last_resort ==
            SelectSeq(reversed,
                      LAMBDA e :
                          \/ urlparse_raises(e.href)
                          \/ /\ e.href # cur
                             /\ netloc(e.href) = netloc(cur)
                             /\ e.href.path # cur.path)
        candidate ==
            IF n = 0 THEN NoPage
            ELSE IF nexts # <<>> THEN nexts[1].href
            ELSE IF current_page # 0 /\ by_text # <<>> THEN by_text[1].href
            ELSE IF by_url # <<>> THEN by_url[1].href
            ELSE IF last_resort # <<>> THEN last_resort[1].href
            ELSE NoPage
    IN  IF urlparse_raises(candidate) THEN NoPage ELSE candidate

\* find_pagination_with_heuristics (332-445): the first "next" anchor whose
\* URL is neither the current URL nor processed; else, when the current URL
\* has a page number, the first anchor whose URL has that number + 1,
\* returned as it is (lines 389-397); the query-parameter branch (399-439)
\* builds the empty URL and never returns it for a URL with a host.  An href
\* urlparse rejects raises and makes the function return None
find_pagination_with_heuristics(soup, cur, processed) ==
    LET nexts ==
            SelectSeq(soup,
                      LAMBDA e :
                          e.next /\
                          (\/ urlparse_raises(e.href)
                           \/ e.href # cur /\ e.href \notin processed))
        current_page_num == extract_page_number_from_url(cur)
        by_number ==
            SelectSeq(soup,
                      LAMBDA e :
                          /\ extract_page_number_from_url(e.href) # 0
                          /\ extract_page_number_from_url(e.href) =
                                 current_page_num + 1)
        candidate ==
            IF nexts # <<>> THEN nexts[1].href
            ELSE IF current_page_num # 0 /\ by_number # <<>>
            THEN by_number[1].href
            ELSE NoPage
    IN  IF urlparse_raises(candidate) THEN NoPage ELSE candidate

\* the state after lines 19-49: status running, current_url the configured
\* URL, nothing processed
InitDynamic ==
    /\ pc = "idle"
    /\ request = [max_depth |-> 0, search_keywords |-> <<>>,
                  pages_limit |-> 0]
    /\ pages_limit = 0
    /\ active_extractions = <<>>
    /\ message_queues = <<>>
    /\ project = NoProject
    /\ sites = {}
    /\ processing_status = InitialStatus
    /\ url_queue = <<>>
    /\ visited_urls = {}
    /\ scraped_pages = <<>>
    /\ pages_checked = 0
    /\ current = NoCurrent
    /\ http_gets = [u \in Urls |-> 0]
    /\ enqueued = [u \in Urls |-> 0]
    /\ hist = [observed |-> "none", last |-> "none", dequeues |-> 0,
               started |-> {}, pages |-> 0, finished |-> 0]
    /\ ChannelIdle
    /\ PoolIdle
    /\ RouteIdle
    /\ AuxIdle
    /\ dyn_pc = "loop"
    /\ config \in [url : [host : {SiteHost}, path : 0 .. MaxPageNumber],
                    paginationSelector : BOOLEAN]
    /\ dyn_current_url = config.url
    /\ processed_urls = {}
    /\ dyn_pages_scraped = 0
    /\ dyn_status = "running"
    /\ dyn_gets = [u \in PaginationUrls |-> 0]
    /\ dyn_returned = {}

\* the test of line 53 left out
already_processed_never(u, processed) == FALSE

\* line 53: current_url in processed_urls
already_processed(u, processed) == u \in processed

\* lines 51-71: the loop test, the test for a URL processed before (the
\* loop then breaks with a warning), and the mark
DynLoopTop ==
    /\ dyn_pc = "loop"
    /\ IF dyn_current_url = NoPage \/ dyn_pages_scraped >= max_pages
       THEN /\ dyn_pc' = "complete"
            /\ UNCHANGED <<processed_urls, dyn_returned>>
       ELSE IF already_processed(dyn_current_url, processed_urls)
       THEN /\ dyn_pc' = "complete"
            /\ UNCHANGED <<processed_urls, dyn_returned>>
       ELSE /\ processed_urls' = processed_urls \cup {dyn_current_url}
            /\ dyn_returned' = {}
            /\ dyn_pc' = "fetch"
    /\ UNCHANGED <<config, dyn_current_url, dyn_pages_scraped, dyn_status,
                   dyn_gets>>
    /\ UNCHANGED <<workervars, active_extractions, message_queues,
                   chanvars, poolvars, routevars, auxvars>>

\* lines 73-179: the GET; a failure ends the pagination (current_url =
\* None); otherwise the page is counted and the next URL is looked for, with
\* the selector first when one is configured, then with the heuristics
DynFetch ==
    /\ dyn_pc = "fetch"
    /\ dyn_gets' = [dyn_gets EXCEPT ![dyn_current_url] = @ + 1]
    /\ \E fetched \in BOOLEAN, soup \in Soups :
          IF ~fetched
          THEN /\ dyn_current_url' = NoPage
               /\ UNCHANGED <<dyn_pages_scraped, dyn_returned>>
          ELSE LET next_page_url ==
                       IF config.paginationSelector
                       THEN find_next_page_link(soup, dyn_current_url)
                       ELSE NoPage
                   by_selector ==
                       /\ next_page_url # NoPage
                       /\ next_page_url # dyn_current_url
                       /\ next_page_url \notin processed_urls
                   by_heuristics ==
                       find_pagination_with_heuristics(
                           soup, dyn_current_url, processed_urls)
               IN  /\ dyn_pages_scraped' = dyn_pages_scraped + 1
                   /\ dyn_current_url' =
                          IF by_selector THEN next_page_url
                          ELSE by_heuristics
                   /\ dyn_returned' =
                          (IF by_selector THEN {next_page_url}
                           ELSE {next_page_url, by_heuristics}) \ {NoPage}
    /\ dyn_pc' = "loop"
    /\ UNCHANGED <<config, processed_urls, dyn_status>>
    /\ UNCHANGED <<workervars, active_extractions, message_queues,
                   chanvars, poolvars, routevars, auxvars>>

\* lines 181-195: status completed
DynComplete ==
    /\ dyn_pc = "complete"
    /\ dyn_status' = "completed"
    /\ dyn_pc' = "done"
    /\ UNCHANGED <<config, dyn_current_url, processed_urls,
                   dyn_pages_scraped, dyn_gets, dyn_returned>>
    /\ UNCHANGED <<workervars, active_extractions, message_queues,
                   chanvars, poolvars, routevars, auxvars>>

NextDynamic ==
    \/ DynLoopTop
    \/ DynFetch
    \/ DynComplete

\* the coroutine is a task of the server's event loop, which runs it
\* whenever it can take a step
SpecDynamic ==
    InitDynamic /\ [][NextDynamic]_vars /\ WF_vars(NextDynamic)

\* ----------------------------------- the paginated scrape main.py starts
\* run_dynamic_scraper of scraper/dynamic_scraper.py, which main.py imports
\* last (line 28) and therefore calls (line 611), and its find_next_page.
\* The pagination selector designates the container of the page's anchors;
\* no element of a page is marked active, so the second strategy of
\* find_next_page (lines 212-221) finds nothing.

\* max_pages of scraper/dynamic_scraper.py, line 40
scraper_max_pages == 10

\* find_next_page (198-264): the href of the first "next" anchor of the
\* container, made absolute; else, for a current URL with a page number, the
\* URL rebuilt after the increment, which is urlparse('').geturl(), the
\* empty string (lines 245, 258); else None.  The loop of the caller takes
\* the empty string and None alike (NoPage).  An href urlparse rejects raises
\* inside the function's try, which then returns None
find_next_page(soup, cur) ==
    LET nexts == SelectSeq(soup, LAMBDA e : e.next)
    IN  IF nexts # <<>> /\ ~urlparse_raises(nexts[1].href)
        THEN nexts[1].href
        ELSE NoPage

\* the state after lines 27-52: status running, current_url the configured
\* URL, no page scraped
InitScraper == InitDynamic

\* line 55: the loop test
ScraperLoopTop ==
    /\ dyn_pc = "loop"
    /\ dyn_pc' = IF dyn_current_url # NoPage /\
                    dyn_pages_scraped < scraper_max_pages
                 THEN "fetch" ELSE "complete"
    /\ UNCHANGED <<config, dyn_current_url, processed_urls,
                   dyn_pages_scraped, dyn_status, dyn_gets, dyn_returned>>
    /\ UNCHANGED <<workervars, active_extractions, message_queues,
                   chanvars, poolvars, routevars, auxvars>>

\* lines 56-141: the GET; a status other than 200 or an exception breaks the
\* loop; otherwise the items of the page's cards, when it has any, are
\* stored (lines 108-119), the next URL is looked for when a selector is
\* configured, the loop breaks when it is the current URL, and else the
\* page is counted and the next URL becomes the current one
ScraperFetch ==
    /\ dyn_pc = "fetch"
    /\ dyn_gets' = [dyn_gets EXCEPT ![dyn_current_url] = @ + 1]
    /\ \E fetched \in BOOLEAN, page_items \in BOOLEAN, soup \in Soups :
          IF ~fetched
          THEN /\ dyn_pc' = "complete"
               /\ UNCHANGED <<dyn_current_url, dyn_pages_scraped,
                              dyn_returned, extracted_data>>
          ELSE LET next_page_url ==
                       IF config.paginationSelector
                       THEN find_next_page(soup, dyn_current_url)
                       ELSE NoPage
               IN  /\ extracted_data' =
                          IF page_items
                          THEN extracted_data \cup {dyn_current_url}
                          ELSE extracted_data
                   /\ dyn_returned' = {next_page_url} \ {NoPage}
                   /\ IF next_page_url = dyn_current_url
                      THEN /\ dyn_pc' = "complete"
                           /\ UNCHANGED <<dyn_current_url,
                                          dyn_pages_scraped>>
                      ELSE /\ dyn_current_url' = next_page_url
                           /\ dyn_pages_scraped' = dyn_pages_scraped + 1
                           /\ dyn_pc' = "loop"
    /\ UNCHANGED <<config, processed_urls, dyn_status>>
    /\ UNCHANGED <<workervars, active_extractions, message_queues,
                   chanvars, poolvars, routevars, resolvervars, sockvars,
                   linkvars>>

\* lines 143-153: completed when a page was counted, failed otherwise
ScraperComplete ==
    /\ dyn_pc = "complete"
    /\ dyn_status' = IF dyn_pages_scraped > 0 THEN "completed" ELSE "failed"
    /\ dyn_pc' = "done"
    /\ UNCHANGED <<config, dyn_current_url, processed_urls,
                   dyn_pages_scraped, dyn_gets, dyn_returned>>
    /\ UNCHANGED <<workervars, active_extractions, message_queues,
                   chanvars, poolvars, routevars, auxvars>>

NextScraper ==
    \/ ScraperLoopTop
    \/ ScraperFetch
    \/ ScraperComplete

SpecScraper == InitScraper /\ [][NextScraper]_vars

\* ------------------------------------------- the pagination functions
\* find_next_page_link and find_pagination_with_heuristics of
\* modules/dynamic_scraper.py and find_next_page of
\* scraper/dynamic_scraper.py, each called once on a page and a current URL
\* of the listing.

\* no crawl job submitted: the state of the worker's variables when another
\* part of the program is looked at
WorkerIdle ==
    /\ pc = "idle"
    /\ request = [max_depth |-> 0, search_keywords |-> <<>>,
                  pages_limit |-> 0]
    /\ pages_limit = 0
    /\ active_extractions = <<>>
    /\ message_queues = <<>>
    /\ project = NoProject
    /\ sites = {}
    /\ processing_status = InitialStatus
    /\ url_queue = <<>>
    /\ visited_urls = {}
    /\ scraped_pages = <<>>
    /\ pages_checked = 0
    /\ current = NoCurrent
    /\ http_gets = [u \in Urls |-> 0]
    /\ enqueued = [u \in Urls |-> 0]
    /\ hist = [observed |-> "none", last |-> "none", dequeues |-> 0,
               started |-> {}, pages |-> 0, finished |-> 0]

\* the arguments of the call: a page of the listing and the URL it was
\* fetched from
InitResolver ==
    /\ WorkerIdle
    /\ ChannelIdle
    /\ DynamicIdle
    /\ PoolIdle
    /\ RouteIdle
    /\ res_pc = "call"
    /\ res_soup \in Soups
    /\ res_url \in [host : {SiteHost}, path : 0 .. MaxPageNumber]
    /\ res_out = NoResult
    /\ extracted_data = {}
    /\ SocketIdle
    /\ LinksIdle

\* the three functions applied to the page; processed_urls holds the current
\* URL, as it does where run_dynamic_scraper calls the functions (line 60
\* adds it before lines 141 and 157 call them)
ResolverCall ==
    /\ res_pc = "call"
    /\ res_out' =
           [link |-> find_next_page_link(res_soup, res_url),
            heuristics |->
                find_pagination_with_heuristics(res_soup, res_url,
                                                {res_url}),
            page |-> find_next_page(res_soup, res_url)]
    /\ res_pc' = "done"
    /\ UNCHANGED <<res_soup, res_url, extracted_data, sockvars, linkvars>>
    /\ UNCHANGED <<workervars, active_extractions, message_queues,
                   chanvars, dynvars, poolvars, routevars>>

NextResolver == ResolverCall

SpecResolver == InitResolver /\ [][NextResolver]_vars

\* ------------------------------------------- the WebSocket endpoint
\* websocket_endpoint (main.py 329-351) and ConnectionManager.connect and
\* disconnect, for the sockets a client opens under one client_id.  Each
\* socket has its own call of websocket_endpoint, a task of the event loop.

InitSockets ==
    /\ WorkerIdle
    /\ ChannelIdle
    /\ DynamicIdle
    /\ PoolIdle
    /\ RouteIdle
    /\ AuxIdle

\* main.py 331 and ConnectionManager.connect (websocket_manager.py 11-15):
\* the socket is accepted and stored under client_id, over whatever was
\* stored there.  The sockets are numbered in the order of their connects
SocketConnect(s) ==
    /\ endpoint_pc[s] = "none"
    /\ \A t \in Sockets : t < s => endpoint_pc[t] # "none"
    /\ endpoint_pc' = [endpoint_pc EXCEPT ![s] = "open"]
    /\ socket_of' = s
    /\ UNCHANGED <<workervars, active_extractions, message_queues,
                   chanvars, dynvars, poolvars, routevars, resolvervars,
                   extracted_data, linkvars>>

\* the client closes the socket, or the network does: receive_text of line
\* 335 will raise WebSocketDisconnect when the endpoint's task runs next
SocketClose(s) ==
    /\ endpoint_pc[s] = "open"
    /\ endpoint_pc' = [endpoint_pc EXCEPT ![s] = "closed"]
    /\ UNCHANGED socket_of
    /\ UNCHANGED <<workervars, active_extractions, message_queues,
                   chanvars, dynvars, poolvars, routevars, resolvervars,
                   extracted_data, linkvars>>

\* main.py 349-351 and ConnectionManager.disconnect (17-21): the entry of
\* client_id is deleted, whichever socket it holds
SocketDisconnect(s) ==
    /\ endpoint_pc[s] = "closed"
    /\ endpoint_pc' = [endpoint_pc EXCEPT ![s] = "done"]
    /\ socket_of' = NoSocket
    /\ UNCHANGED <<workervars, active_extractions, message_queues,
                   chanvars, dynvars, poolvars, routevars, resolvervars,
                   extracted_data, linkvars>>

NextSockets ==
    \E s \in Sockets :
        \/ SocketConnect(s)
        \/ SocketClose(s)
        \/ SocketDisconnect(s)

SpecSockets == InitSockets /\ [][NextSockets]_vars

\* ------------------------------------------- process_extracted_links
\* process_extracted_links (project_manager.py 444-545) and its nested
\* scrape_links, called with a list of links and a depth on a site whose
\* pages list their links in some order.  A page whose fetch fails has no
\* extracted_links, like a page without links.  The statistics and the
\* progress events are left out.

\* the pages of the site
NumLinkPages == 3

\* the values of the parameter depth
MaxLevels == 2

LinkUrls == [host : {SiteHost}, path : 1 .. NumLinkPages]

\* the link lists of a page: extract_links (site.py 292-327) returns each
\* URL once
LinkLists == SeqsNoDup(LinkUrls, MaxLinks)

\* lines 448-450: visited_urls empty, links_to_visit the links handed over
InitLinks ==
    /\ WorkerIdle
    /\ ChannelIdle
    /\ DynamicIdle
    /\ PoolIdle
    /\ RouteIdle
    /\ ResolverIdle
    /\ extracted_data = {}
    /\ SocketIdle
    /\ links_pc = "call"
    /\ site_links \in [LinkUrls -> LinkLists]
    /\ links_to_visit \in LinkLists
    /\ links_depth \in 0 .. MaxLevels
    /\ call_stack = <<>>
    /\ links_visited = {}

\* line 526: scrape_links(links_to_visit, current_depth=1)
LinksStart ==
    /\ links_pc = "call"
    /\ call_stack' = <<[links |-> links_to_visit, current_depth |-> 1]>>
    /\ links_pc' = "run"
    /\ UNCHANGED <<site_links, links_to_visit, links_depth, links_visited>>
    /\ UNCHANGED <<workervars, active_extractions, message_queues,
                   chanvars, dynvars, poolvars, routevars, resolvervars,
                   extracted_data, sockvars>>

\* the call of scrape_links in progress, and what is left of its `for`
top_call == call_stack[Len(call_stack)]
calls_below == SubSeq(call_stack, 1, Len(call_stack) - 1)
top_advanced == [top_call EXCEPT !.links = Tail(@)]

\* lines 469-470 and the end of the `for`: the call returns; the function
\* ends when it was the first call
ScrapeLinksReturn ==
    /\ links_pc = "run"
    /\ \/ top_call.current_depth > links_depth
       \/ top_call.links = <<>>
    /\ call_stack' = calls_below
    /\ links_pc' = IF calls_below = <<>> THEN "done" ELSE "run"
    /\ UNCHANGED <<site_links, links_to_visit, links_depth, links_visited>>
    /\ UNCHANGED <<workervars, active_extractions, message_queues,
                   chanvars, dynvars, poolvars, routevars, resolvervars,
                   extracted_data, sockvars>>

\* lines 472-476: a link whose URL is in visited_urls is skipped
ScrapeLinksSkip ==
    /\ links_pc = "run"
    /\ top_call.current_depth <= links_depth
    /\ top_call.links # <<>>
    /\ Head(top_call.links) \in links_visited
    /\ call_stack' = Append(calls_below, top_advanced)
    /\ UNCHANGED <<links_pc, site_links, links_to_visit, links_depth,
                   links_visited>>
    /\ UNCHANGED <<workervars, active_extractions, message_queues,
                   chanvars, dynvars, poolvars, routevars, resolvervars,
                   extracted_data, sockvars>>

\* lines 478-517: the link is scraped and its URL added to visited_urls;
\* when current_depth < depth and the page has links, scrape_links is called
\* at current_depth + 1 with those of them that are not in visited_urls
ScrapeLinksScrape ==
    /\ links_pc = "run"
    /\ top_call.current_depth <= links_depth
    /\ top_call.links # <<>>
    /\ Head(top_call.links) \notin links_visited
    /\ LET link_url == Head(top_call.links)
           new_links ==
               SelectSeq(site_links[link_url],
                         LAMBDA l : l \notin links_visited')
       IN  /\ links_visited' = links_visited \cup {link_url}
           /\ call_stack' =
                  IF /\ top_call.current_depth < links_depth
                     /\ site_links[link_url] # <<>>
                  THEN Append(Append(calls_below, top_advanced),
                              [links |-> new_links,
                               current_depth |->
                                   top_call.current_depth + 1])
                  ELSE Append(calls_below, top_advanced)
    /\ UNCHANGED <<links_pc, site_links, links_to_visit, links_depth>>
    /\ UNCHANGED <<workervars, active_extractions, message_queues,
                   chanvars, dynvars, poolvars, routevars, resolvervars,
                   extracted_data, sockvars>>

NextLinks ==
    \/ LinksStart
    \/ ScrapeLinksReturn
    \/ ScrapeLinksSkip
    \/ ScrapeLinksScrape

SpecLinks == InitLinks /\ [][NextLinks]_vars

\* ------------------------------------------------------ the thread pool
\* add_project_with_scraping called for several jobs, and the executor that
\* runs their workers.  A worker is seen from the pool: a thread of the pool
\* takes it from the executor's queue, and it returns once it has set the
\* job's final status.

\* the jobs submitted
NumJobs == 6

\* ThreadPoolExecutor(max_workers=5), line 31
max_workers == 5

\* the client ids of the jobs
JobIds == <<"j1", "j2", "j3", "j4", "j5", "j6", "j7", "j8">>
Jobs == {JobIds[i] : i \in 1 .. NumJobs}

\* the server after start-up: nothing submitted
InitPool ==
    /\ pc = "idle"
    /\ request = [max_depth |-> 0, search_keywords |-> <<>>,
                  pages_limit |-> 0]
    /\ pages_limit = 0
    /\ active_extractions = <<>>
    /\ message_queues = <<>>
    /\ project = NoProject
    /\ sites = {}
    /\ processing_status = InitialStatus
    /\ url_queue = <<>>
    /\ visited_urls = {}
    /\ scraped_pages = <<>>
    /\ pages_checked = 0
    /\ current = NoCurrent
    /\ http_gets = [u \in Urls |-> 0]
    /\ enqueued = [u \in Urls |-> 0]
    /\ hist = [observed |-> "none", last |-> "none", dequeues |-> 0,
               started |-> {}, pages |-> 0, finished |-> 0]
    /\ ChannelIdle
    /\ DynamicIdle
    /\ PoolIdle
    /\ RouteIdle
    /\ AuxIdle

\* add_project_with_scraping for job j, lines 342-390: the job is registered
\* in active_extractions with status running, its queue is created, and
\* run_extraction_thread is submitted to thread_pool
PoolSubmit(j) ==
    /\ j \notin DOMAIN active_extractions
    /\ active_extractions' =
           active_extractions @@
           (j :> [status |-> STATUS_RUNNING, interrupt_requested |-> FALSE])
    /\ message_queues' = message_queues @@ (j :> <<>>)
    /\ work_queue' = Append(work_queue, j)
    /\ UNCHANGED pool_threads
    /\ UNCHANGED <<workervars, chanvars, dynvars, routevars, auxvars>>

\* a thread of the executor, of which there are at most max_workers, takes
\* the oldest work item and calls run_extraction_thread
PoolWorkerTakes ==
    /\ work_queue # <<>>
    /\ Cardinality(pool_threads) < max_workers
    /\ pool_threads' = pool_threads \cup {Head(work_queue)}
    /\ work_queue' = Tail(work_queue)
    /\ UNCHANGED <<active_extractions, message_queues>>
    /\ UNCHANGED <<workervars, chanvars, dynvars, routevars, auxvars>>

\* run_extraction_thread of job j returns; it has set the job's final status
\* (lines 903, 931, 972)
PoolWorkerReturns(j) ==
    /\ j \in pool_threads
    /\ \E status \in {STATUS_COMPLETED, STATUS_INTERRUPTED, STATUS_ERROR} :
          active_extractions' =
              [active_extractions EXCEPT ![j].status = status]
    /\ pool_threads' = pool_threads \ {j}
    /\ UNCHANGED <<message_queues, work_queue>>
    /\ UNCHANGED <<workervars, chanvars, dynvars, routevars, auxvars>>

NextPool ==
    \/ \E j \in Jobs : PoolSubmit(j)
    \/ PoolWorkerTakes
    \/ \E j \in Jobs : PoolWorkerReturns(j)

SpecPool == InitPool /\ [][NextPool]_vars

\* -------------------------------------------------- the permission check
\* add_project_with_scraping_route (main.py 458-546) and
\* ScrapingAssistant.can_scrape (modules/groq.py 69-136).  The reply of the
\* language model is a sequence of characters.

\* what the model can stream back: "Yes", "No", "yes.", nothing, "Maybe",
\* "Unknown"
Replies ==
    {<<"Y", "e", "s">>, <<"N", "o">>, <<"y", "e", "s", ".">>, <<>>,
     <<"M", "a", "y", "b", "e">>,
     <<" ", "U", "n", "k", "n", "o", "w", "n">>}

\* where the check can fail: nowhere; in chat.completions.create, inside
\* the try of can_scrape; or in the route before or after can_scrape (the
\* constructor of ScrapingAssistant, say), inside the try of the route only
CheckFailures == {"none", "completion", "route"}

\* str.strip() for blanks
RECURSIVE strip(_)
strip(s) ==
    IF s = <<>> THEN s
    ELSE IF Head(s) = " " THEN strip(Tail(s))
    ELSE IF s[Len(s)] = " " THEN strip(SubSeq(s, 1, Len(s) - 1))
    ELSE s

\* str.lower() on the letters of Replies
lower(s) ==
    [i \in 1 .. Len(s) |->
        CASE s[i] = "Y" -> "y"
          [] s[i] = "N" -> "n"
          [] s[i] = "M" -> "m"
          [] s[i] = "U" -> "u"
          [] OTHER -> s[i]]

\* sub in s, for strings
contains(s, sub) ==
    \E i \in 1 .. (Len(s) - Len(sub) + 1) :
        SubSeq(s, i, i + Len(sub) - 1) = sub

\* can_scrape, lines 111-136: the reply is stripped and lowercased; "Yes"
\* when it holds "yes", else "No" when it holds "no", else "Yes"; "Yes" as
\* well when the request to the model raised
can_scrape(text, raised) ==
    LET result == lower(strip(text))
    IN  IF raised THEN "Yes"
        ELSE IF contains(result, <<"y", "e", "s">>) THEN "Yes"
        ELSE IF contains(result, <<"n", "o">>) THEN "No"
        ELSE "Yes"

\* the client id add_project_with_scraping gives a job when it is called
\* without one (lines 337-339)
project_client_id == "project_p1"

\* a request has reached the route (main.py 458-468)
InitRoute ==
    /\ pc = "route"
    /\ request \in [max_depth : MaxDepthValues,
                    search_keywords : KeywordLists,
                    pages_limit : PagesLimitValues]
    /\ pages_limit = request.pages_limit
    /\ active_extractions = <<>>
    /\ message_queues = <<>>
    /\ project = NoProject
    /\ sites = {}
    /\ processing_status = InitialStatus
    /\ url_queue = <<>>
    /\ visited_urls = {}
    /\ scraped_pages = <<>>
    /\ pages_checked = 0
    /\ current = NoCurrent
    /\ http_gets = [u \in Urls |-> 0]
    /\ enqueued = [u \in Urls |-> 0]
    /\ hist = [observed |-> "none", last |-> "none", dequeues |-> 0,
               started |-> {}, pages |-> 0, finished |-> 0]
    /\ ChannelIdle
    /\ DynamicIdle
    /\ PoolIdle
    /\ reply \in Replies
    /\ check_failure \in CheckFailures
    /\ can_scrape_result = ""
    /\ AuxIdle

\* main.py 466-483: the check.  An exception in the route's try leads to the
\* handler of lines 532-546
RouteCheck ==
    /\ pc = "route"
    /\ IF check_failure = "route"
       THEN /\ pc' = "idle"
            /\ UNCHANGED can_scrape_result
       ELSE /\ can_scrape_result' =
                   can_scrape(reply, check_failure = "completion")
            /\ pc' = "decide"
    /\ UNCHANGED <<reply, check_failure>>
    /\ UNCHANGED <<request, pages_limit, active_extractions, message_queues,
                   project, sites, processing_status, url_queue, visited_urls,
                   scraped_pages, pages_checked, current, http_gets,
                   enqueued, hist>>
    /\ UNCHANGED <<chanvars, dynvars, poolvars, auxvars>>

\* main.py 496-517: on "No" the route returns status blocked; otherwise it
\* goes on to add_project_with_scraping
RouteDecide ==
    /\ pc = "decide"
    /\ pc' = IF can_scrape_result = "No" THEN "blocked" ELSE "idle"
    /\ UNCHANGED <<request, pages_limit, active_extractions, message_queues,
                   project, sites, processing_status, url_queue, visited_urls,
                   scraped_pages, pages_checked, current, http_gets,
                   enqueued, hist>>
    /\ UNCHANGED <<chanvars, dynvars, poolvars, routevars, auxvars>>

\* main.py 518-528 and 537-546: the call of add_project_with_scraping, with
\* the request's client_id after a check that ran through, without a
\* client_id from the exception handler
RouteSubmit ==
    add_project_with_scraping_as(
        IF check_failure = "route" THEN project_client_id ELSE client_id)

NextRoute ==
    \/ RouteCheck
    \/ RouteDecide
    \/ RouteSubmit

SpecRoute == InitRoute /\ [][NextRoute]_vars

\* --------------------------------------------------------------- claims

job_status == active_extractions[client_id].status
persisted_status == project.processing_status.extraction_status
events == message_queues[client_id]
stored_urls == {d.url : d \in sites}
TerminalStatuses == {STATUS_COMPLETED, STATUS_INTERRUPTED, STATUS_ERROR}
in_page == pc \in {"keywords", "scrape", "fetching"}

\* C1: a worker that saw the interrupt flag set at a checkpoint (before a
\* dequeue or after a page) ends with status `interrupted`, in
\* active_extractions and in the persisted processing_status, and not with
\* `completed`.
C1_ObservedFlagEndsInterrupted ==
    (pc = "done" /\ hist.observed # "none") =>
        /\ job_status = STATUS_INTERRUPTED
        /\ persisted_status = STATUS_INTERRUPTED

\* C2: no page the worker takes from url_queue after the flag was set is
\* stored or counted in pages_scraped.
C2_NothingStoredAfterFlag ==
    \A u \in hist.started :
        u \notin Range(scraped_pages) /\ u \notin stored_urls

\* C3: once the flag is set the worker finishes at most one more page and
\* makes at most one more dequeue, and after that page it only checks the
\* flag and ends; the flag is read before every dequeue and right after every
\* page; a page whose fetch is in flight is always finished, never dropped.
C3_AtMostOneMorePage ==
    /\ hist.pages <= 1
    /\ hist.dequeues <= 1
    /\ (hist.pages >= 1 => pc \in {"check_bottom", "finally", "done"})
    /\ (pc = "dequeue" => hist.last = "poll")
    /\ (hist.last = "page" => pc = "check_bottom")
    /\ (~in_page => hist.finished = pages_checked)

\* C3 witness: the flag was set after the check before a dequeue; that page
\* was dequeued and finished, and the worker then ended.
C3_Witness ==
    /\ pc = "done"
    /\ hist.pages = 1
    /\ hist.dequeues = 1
    /\ hist.observed = "after_page"

\* C4: the crawl loop issues at most one GET per URL in a job, the keyword
\* check and the scrape counted together.
C4_OneGetPerUrl == \A u \in Urls : http_gets[u] <= 1

\* C5: a URL is put on the job's queue at most once in the job's lifetime.
C5_EnqueuedAtMostOnce == \A u \in Urls : enqueued[u] <= 1

\* C6: every child link is queued at its parent's depth + 1, and with
\* max_depth >= 0 no queue entry and no processed page is deeper than
\* max_depth.
C6_DepthBound ==
    max_depth >= 0 =>
        /\ \A i \in 1 .. Len(url_queue) : url_queue[i][2] <= max_depth
        /\ current.depth <= max_depth

C6_ChildDepth ==
    (pc = "fetching" /\ pc' = "check_bottom") =>
        /\ Len(url_queue') >= Len(url_queue)
        /\ \A i \in 1 .. Len(url_queue') :
              IF i <= Len(url_queue)
              THEN url_queue'[i] = url_queue[i]
              ELSE url_queue'[i][2] = current.depth + 1

C6_Depth == []C6_DepthBound /\ [][C6_ChildDepth]_vars

\* C6 witness: a child page, at depth max_depth >= 1, has been processed.
C6_Witness ==
    /\ max_depth >= 1
    /\ pc = "check_bottom"
    /\ current.depth = max_depth

\* C7: every entry put on the job's queue has the seed URL's host, the
\* sitemap's entries included.
C7_QueueOnSeedHost ==
    \A i \in 1 .. Len(url_queue) : netloc(url_queue[i][1]) = base_domain

\* C8: a job's status only moves from running to completed, interrupted or
\* error, and a status of completed, interrupted or error never changes
\* again, in active_extractions and in the persisted processing_status.
StatusStep(a, b) ==
    \/ b = a
    \/ a = STATUS_RUNNING /\ b \in TerminalStatuses

C8_TerminalStatusIsFinal ==
    [][/\ StatusStep(persisted_status, persisted_status')
       /\ (client_id \in DOMAIN active_extractions =>
              StatusStep(job_status, job_status'))]_vars

\* C9: a job submitted with pages_limit > 0 never fetches more pages than
\* pages_limit.
C9_PageCapRespected ==
    request.pages_limit > 0 => pages_checked <= request.pages_limit

\* C10: when the fetch of a dequeued page fails, the worker appends an entry
\* to the error list, emits an error event, queues no children, does not
\* store the page, does not count it in pages_scraped, and goes on.
C10_FailedFetchRecorded ==
    [][(pc = "fetching" /\ pc' = "check_bottom" /\ current'.scrape_error) =>
          /\ Len(processing_status'.errors) = Len(processing_status.errors) + 1
          /\ \E i \in 1 .. Len(events') :
                i > Len(events) /\ events'[i].type = "error"
          /\ url_queue' = url_queue
          /\ sites' = sites
          /\ scraped_pages' = scraped_pages
          /\ processing_status'.pages_scraped =
                 processing_status.pages_scraped]_vars

\* C11: when the fetch of the seed URL fails, the job ends with status
\* `error`, and no page is stored or counted as scraped.
C11_SeedFailureEndsInError ==
    (current.url = url /\ current.scrape_error) =>
        /\ scraped_pages = <<>>
        /\ sites = {}
        /\ (pc = "done" => job_status = STATUS_ERROR)

\* C12: an exception raised while the worker handles one queue entry other
\* than the seed is put on the job's error list and the worker goes on with
\* the next entry; it never takes the job to the handler that ends it in
\* `error`.
C12_PageFailureNeverEndsJob ==
    [][(/\ pc = "dequeue"
        /\ Head(url_queue)[1] # url
        /\ Head(url_queue)[1] \notin visited_urls
        /\ urlparse_raises(Head(url_queue)[1])) =>
          /\ pc' = "loop"
          /\ Len(processing_status'.errors) =
                 Len(processing_status.errors) + 1]_vars

\* C13: with keywords configured, a page that does not match is not stored
\* and not counted in pages_scraped, and its links are put on the queue as
\* they are for a page that is stored: at depth + 1 when depth < max_depth
\* and the fetch gave HTML, none otherwise.
C13_NonMatchingPageTraversed ==
    [][(/\ pc = "fetching"
        /\ pc' = "check_bottom"
        /\ Len(search_keywords) > 0
        /\ ~current.contains_keywords) =>
          /\ sites' = sites
          /\ scraped_pages' = scraped_pages
          /\ processing_status'.pages_scraped = Len(scraped_pages)
          /\ project'.processing_status.pages_scraped = Len(scraped_pages)
          /\ \E d \in ScrapeResults :
                url_queue' =
                    put_unvisited(
                        url_queue,
                        IF current.depth < max_depth /\ ~d.error
                        THEN extract_links_from_html(d.raw_html, current.url)
                        ELSE <<>>,
                        current.depth + 1)]_vars

\* C13 witness: a page that did not match was fetched, was not stored, and
\* a link of it is on the queue at depth + 1.
C13_Witness ==
    /\ pc = "check_bottom"
    /\ Len(search_keywords) > 0
    /\ ~current.contains_keywords
    /\ current.url \notin stored_urls
    /\ current.url \notin Range(scraped_pages)
    /\ \E i \in 1 .. Len(url_queue) : url_queue[i][2] = current.depth + 1

discovered == {u \in Urls : enqueued[u] > 0}

\* C15: pages_scraped <= pages_found <= the number of distinct URLs
\* discovered so far, in the worker's processing_status and in the persisted
\* one.
C15_CounterOrder ==
    /\ processing_status.pages_scraped <= processing_status.pages_found
    /\ processing_status.pages_found <= Cardinality(discovered)
    /\ project.processing_status.pages_scraped <=
           project.processing_status.pages_found
    /\ project.processing_status.pages_found <= Cardinality(discovered)

\* C15 witness: a job ended with the three numbers all different: one page
\* stored, two fetched, three URLs discovered.
C15_Witness ==
    /\ pc = "done"
    /\ project.processing_status.pages_scraped = 1
    /\ project.processing_status.pages_found = 2
    /\ Cardinality(discovered) = 3

\* C16: with max_depth = 0 and no page cap the worker processes no page but
\* the seed, at most once, and no child is put on the queue, whatever the
\* sitemap lists.
C16_DepthZeroOnlySeed ==
    (max_depth = 0 /\ request.pages_limit = 0) =>
        /\ visited_urls \subseteq {url}
        /\ pages_checked <= 1
        /\ \A i \in 1 .. Len(url_queue) : url_queue[i][2] = 0

\* C17: the paginated scrape ends on every site, and it issues at most one
\* GET per URL.
C17_OneGetPerUrl == \A u \in PaginationUrls : dyn_gets[u] <= 1

C17_TerminatesEachUrlOnce == []C17_OneGetPerUrl /\ <>(dyn_pc = "done")

\* C17 witness: the scrape ended on a pagination cycle: the URL it was sent
\* to next was one it had processed, after two or more pages.
C17_Witness ==
    /\ dyn_pc = "done"
    /\ dyn_status = "completed"
    /\ dyn_current_url \in processed_urls
    /\ Cardinality(processed_urls) >= 2

\* C18: neither find_next_page_link nor find_pagination_with_heuristics
\* returns the current URL or a URL of processed_urls (which holds the
\* current URL when they are called).
C18_ResolverNeverReturnsProcessed ==
    \A u \in dyn_returned : u \notin processed_urls

\* C19: an entry the consumer has taken from the queue and hands to the
\* transport while the observer is disconnected is kept in msg_buffer.
C19_UndeliveredKeptInBacklog ==
    [][(/\ consumer_pc = "send"
        /\ consumer_pc' = "loop"
        /\ client_id \notin active_connections) =>
          \E i \in 1 .. Len(msg_buffer') : msg_buffer'[i] = message]_vars

held_events ==
    (IF client_id \in DOMAIN message_queues
     THEN Len(message_queues[client_id]) ELSE 0) + Len(msg_buffer)

\* a cap below the number of events the job publishes
BacklogCap == MaxEvents - 1

\* C22: the number of undelivered progress events held for a job (its queue
\* plus the consumer's msg_buffer) never exceeds a fixed cap: a job that
\* publishes more events than the cap has its oldest events dropped.
C22_HeldEventsCapped == held_events <= BacklogCap

C24_NoDequeueAfterFinalStatus ==
    [][(\/ (client_id \in DOMAIN active_extractions
            /\ job_status \in TerminalStatuses)
        \/ processing_status.extraction_status \in TerminalStatuses
        \/ persisted_status \in TerminalStatuses)
       => /\ Len(url_queue') >= Len(url_queue)
          /\ pc' # "dequeue"]_vars

\* the worker has ended with a final status and url_queue still holds an URL
C24_Witness ==
    /\ pc = "done"
    /\ client_id \in DOMAIN active_extractions
    /\ job_status \in TerminalStatuses
    /\ url_queue # <<>>

\* C25: no URL that fails the basic validity test (is_invalid_url) is ever
\* put on url_queue.
C25_NoInvalidUrlQueued ==
    /\ \A u \in Urls : is_invalid_url(u) => enqueued[u] = 0
    /\ \A i \in 1 .. Len(url_queue) : ~is_invalid_url(url_queue[i][1])

\* C26: at most max_workers jobs are run at the same time, and a job
\* submitted while max_workers jobs are being run is neither run nor
\* reported as running before one of them has finished.
C26_QueuedJobNotRunning ==
    /\ Cardinality(pool_threads) <= max_workers
    /\ \A i \in 1 .. Len(work_queue) :
          Cardinality(pool_threads) = max_workers
              => /\ work_queue[i] \notin pool_threads
                 /\ active_extractions[work_queue[i]].status #
                        STATUS_RUNNING

\* the replies that are an answer: yes or no, whatever the case, with or
\* without a full stop
ClearReplies == {<<"Y", "e", "s">>, <<"N", "o">>, <<"y", "e", "s", ".">>}

\* C27: when the permission check answers No, no job is created, registered
\* or started and no page is fetched; when the check fails or the reply is
\* not an answer, the request is not blocked and the job is registered as it
\* is after the answer Yes, under the request's client_id.
C27_NoBlocksUnclearProceeds ==
    /\ pc = "blocked"
           => /\ ~project.exists
              /\ active_extractions = <<>>
              /\ message_queues = <<>>
              /\ \A u \in Urls : http_gets[u] = 0
    /\ (check_failure # "none" \/ reply \notin ClearReplies)
           => /\ pc # "blocked"
              /\ pc = "submitted"
                     => DOMAIN active_extractions = {client_id}

\* C28: a job that ends as completed or interrupted puts a completion event
\* on its queue, and consume_messages ends only after it took that event
\* from the queue, however the worker and the consumer are interleaved.
C28_CompletionTakenBeforeExit ==
    (consumer_pc = "ended" /\ job_status \in
                                 {STATUS_COMPLETED, STATUS_INTERRUPTED})
        => completion = "queued"

\* C29: when the worker has honoured the interrupt flag, the project document
\* holds the worker's counts of pages found and pages scraped, and its list
\* of scraped pages is the worker's list of the pages stored before the
\* interruption.
C29_InterruptedStatePersisted ==
    (pc = "done" /\ hist.observed # "none")
        => /\ project.processing_status.pages_found =
                  Cardinality(visited_urls)
           /\ project.processing_status.pages_scraped = Len(scraped_pages)
           /\ project.scraped_pages = scraped_pages

\* C30: the paginated scrape main.py starts (run_dynamic_scraper of
\* scraper/dynamic_scraper.py) issues at most one GET per URL, also when the
\* pagination links of the site lead back to a page scraped before.
C30_NoRefetchOnCycle ==
    \A u \in PaginationUrls : dyn_gets[u] < 2

\* the anchors of a page the three heuristics of find_next_page_link select
\* for a current URL: a next-page indicator, a text that is the current page
\* number + 1, a page number strictly above the current URL's
heuristic_hits(soup, cur) ==
    {soup[i].href : i \in
        {j \in 1 .. Len(soup) :
            \/ soup[j].next
            \/ /\ ~soup[j].next
               /\ find_current_page_number(soup) # 0
               /\ extract_page_number_from_url(soup[j].href) =
                      find_current_page_number(soup) + 1
            \/ /\ extract_page_number_from_url(cur) # 0
               /\ extract_page_number_from_url(soup[j].href) >
                      extract_page_number_from_url(cur)}}

\* C31: find_next_page_link returns a URL only when one of its three
\* heuristics selects it, and so never a link to a page whose number is
\* below the current URL's.
C31_OnlyHeuristicHits ==
    res_pc = "done" /\ res_out.link # NoPage =>
        /\ res_out.link \in heuristic_hits(res_soup, res_url)
        /\ ~(/\ extract_page_number_from_url(res_out.link) # 0
             /\ extract_page_number_from_url(res_out.link) <
                    extract_page_number_from_url(res_url))

\* no anchor of the page is a next-page link or carries the page number
\* after the current URL's: the link-based strategies find nothing
no_link_hit(soup, cur) ==
    \A i \in 1 .. Len(soup) :
        /\ ~soup[i].next
        /\ extract_page_number_from_url(soup[i].href) #
               extract_page_number_from_url(cur) + 1

\* the URL with its page number incremented by 1
incremented(cur) == [host |-> cur.host, path |-> cur.path + 1]

\* C32: for a current URL with a page number and a page on which no
\* link-based strategy finds a next page, find_next_page and
\* find_pagination_with_heuristics return the current URL with the number
\* incremented by exactly 1.
C32_IncrementedByOne ==
    /\ res_pc = "done"
    /\ extract_page_number_from_url(res_url) # 0
    /\ no_link_hit(res_soup, res_url)
    => /\ res_out.page = incremented(res_url)
       /\ res_out.heuristics = incremented(res_url)

\* C38: a job of run_dynamic_scraper (scraper/dynamic_scraper.py) that
\* fetched a page and stored its items ends with status completed and
\* pages_scraped >= 1, also when the page's next-page link is the page
\* itself.
C38_StoredPageCompletes ==
    dyn_pc = "done" /\ extracted_data # {} =>
        dyn_status = "completed" /\ dyn_pages_scraped >= 1

\* C33: each URL passes the visited check of run_extraction_thread at most
\* once per job: the number of passes (pages_checked, counted right after
\* the check) is the number of distinct URLs that passed, also when a URL
\* was put in the queue several times.
C33_OnePassPerUrl == pages_checked = Cardinality(visited_urls)

\* a URL put in the queue twice has passed the check, and the job is over
\* with the queue drained
C33_Witness ==
    /\ pc = "done"
    /\ url_queue = <<>>
    /\ \E u \in visited_urls : enqueued[u] >= 2

\* C34: absent an interrupt, every URL of the seed's host reachable from the
\* seed and the sitemap pages through at most max_depth links over fetched
\* pages (the URLs put in the queue) is processed before the job ends; the
\* FIFO queue hands each of them over first at its shortest distance.
C34_ReachableProcessed ==
    pc = "done" /\ ~flag_set =>
        \A u \in discovered :
            ~urlparse_raises(u) /\ netloc(u) = base_domain =>
                u \in visited_urls

\* C35: absent an interrupt, run_extraction_thread ends with status
\* completed, whatever the site serves.
C35_EndsCompleted ==
    pc = "done" /\ ~flag_set => job_status = STATUS_COMPLETED

\* C36: once the job has a final status, consume_messages eventually ends
\* and the job's entry is gone from message_queues, whether or not the
\* observer ever connects (the worker publishes finitely many entries).
C36_ConsumerEventuallyExits ==
    extraction_done(active_extractions) ~>
        (consumer_pc = "ended" /\ client_id \notin DOMAIN message_queues)

\* the consumer has ended and removed the queue of a job that published
\* entries, none of which reached an observer
C36_Witness ==
    /\ consumer_pc = "ended"
    /\ client_id \notin DOMAIN message_queues
    /\ clock >= 2
    /\ transport = <<>>
    /\ active_connections = {}

\* C37: while the socket the client connected last under client_id is
\* open, active_connections maps client_id to it, also when the disconnect
\* of an earlier socket is processed after the connect of the new one.
C37_OpenSocketRegistered ==
    \A s \in Sockets :
        (/\ endpoint_pc[s] = "open"
         /\ \A t \in Sockets : t > s => endpoint_pc[t] = "none")
            => socket_of = s

\* the URLs within k levels of links of the initial links, the initial
\* links being level 1
RECURSIVE reachable_within(_)
reachable_within(k) ==
    IF k <= 0 THEN {}
    ELSE IF k = 1 THEN Range(links_to_visit)
    ELSE LET nearer == reachable_within(k - 1)
         IN  nearer \cup UNION {Range(site_links[u]) : u \in nearer}

\* C39: process_extracted_links scrapes every URL reachable from the
\* initial links within `depth` levels of links, whatever the order of the
\* links on the pages.
C39_AllWithinDepthScraped ==
    links_pc = "done" => reachable_within(links_depth) \subseteq links_visited

====
